---- MODULE Spec2Model ----
(***************************************************************************)
(* Model of the inline type-erased callable container of                   *)
(* LoopPerfect/smallfunction: SmallFun (smallfun/include/smallfun.hpp) and *)
(* its near-duplicate SmallFunction (smallfunction/apps/main.cpp).         *)
(*                                                                         *)
(* A container is `char memory[size]` plus `bool allocated`.  The bytes of *)
(* `memory` are modelled by the identity of the adapter object whose       *)
(* object representation they hold (0 = never written).  An adapter object *)
(* is created only by a placement-new (a constructor run); copying the     *)
(* bytes of `memory` creates no object, it duplicates the representation   *)
(* of an existing one.  An adapter object whose bytes are in no slot any   *)
(* more is dropped from the state; `leaked` and `twice` tell whether the   *)
(* last operation abandoned an undestroyed adapter or ran a destructor on  *)
(* an already destroyed one, `heap` how many heap allocations it made.     *)
(***************************************************************************)
EXTENDS Integers, Sequences, FiniteSets, TLC

\* ---- bounds of the model ------------------------------------------------
MaxConts == 2

\* ---- platform and input sets --------------------------------------------
PtrSize == 8

Conts == 1..MaxConts
Temp == 0
Slots == 0..MaxConts
Caps == {16, 64}
Impls == {"smallfun", "smallfunction"}
Args == {5, 99}
Quals == {"const", "mutable"}

\* A callable F: captures i and N and computes i*j+N (apps/main.cpp:54-56).
\* sz is sizeof(F); owns tells whether F's destructor releases a resource the
\* captures live in (a by-value capture with a non-trivial destructor).
Lambda(i) == [i |-> i, N |-> 100, sz |-> 8, owns |-> FALSE]
OwningLambda(i) == [i |-> i, N |-> 100, sz |-> 24, owns |-> TRUE]
Callables == {Lambda(99), OwningLambda(3)}

NoF == [i |-> 0, N |-> 0, sz |-> 0, owns |-> FALSE]
Trap == -1
NoResult == -2
\* what a read through an invalid object can yield
UBResults == {Trap, 42}

VARIABLES impls, cstate, cap, allocated, memory, objs, leaked, twice,
          heap, ev, lastOp, result, halted

vars == <<impls, cstate, cap, allocated, memory, objs, leaked, twice,
          heap, ev, lastOp, result, halted>>

\* ---- pure helpers -------------------------------------------------------
RoundUp(n, a) == ((n + a - 1) \div a) * a

\* sizeof(SFModel<F, ReturnType, Xs...>): a vtable pointer followed by F f.
SizeofSFModel(f) == PtrSize + RoundUp(f.sz, PtrSize)

\* alignof(SFModel<F, ReturnType, Xs...>): that of its vtable pointer (the
\* callables drawn here hold nothing stricter).
AlignofSFModel(f) == PtrSize

\* SmallFun is `char memory[size]; bool allocated;` with no alignment
\* specifier: alignof(SmallFun) is 1 and sizeof(SmallFun) is size + 1.
AlignofSmallFun == 1
SizeofSmallFun(size) == RoundUp(size + 1, AlignofSmallFun)

\* Address of `memory` (the first member) of element k of an array or vector
\* of containers of capacity `size`, relative to the start of the array, which
\* the allocator aligns for every fundamental type.
ElementIndexes == 0..(MaxConts - 1)
ElementAddress(k, size) == k * SizeofSmallFun(size)

\* the closure body `return i*j+N;` (int i, unsigned N, int j).  For the
\* captures and arguments drawn here 0 <= i*j+N < 2^31, so neither the int
\* product nor the unsigned sum wraps.
Apply(f, j) == f.i * j + f.N

\* variant: the non-const overload does not forward its argument
SFModel_call_DropsArg(f, x, q) == IF q = "const" THEN Apply(f, x) ELSE Apply(f, 0)

\* SFModel::operator()(Xs...) const  and  SFModel::operator()(Xs...)
SFModel_call(f, x, q) == IF q = "const" THEN Apply(f, x) ELSE Apply(f, x)

\* variant: the converting constructor carries no size constraint
FitsCallable_Unconstrained(f, size) == TRUE

\* enable_if on the converting constructor
FitsCallable(f, size) == SizeofSFModel(f) <= size

\* enable_if on the templated copy constructor / operator=
FitsCapacity(s, size) == s <= size

\* The templated copy operations read sf.allocated of another specialization.
\* In smallfun.hpp the container is a `class` (members private), so they do
\* not compile for s # size; in smallfunction/apps/main.cpp it is a `struct`.
CrossCapacityCompiles(im) == im = "smallfunction"

\* the implementations a program using the operation compiles against
CompilesWith(cross) ==
  IF cross THEN {im \in Impls : CrossCapacityCompiles(im)} ELSE Impls

\* SmallFunction::operator= in smallfunction/apps/main.cpp has no return
\* statement: flowing off its end is undefined behaviour.
AssignFlowsOffEnd(im) == im = "smallfunction"

\* ---- object bookkeeping -------------------------------------------------
\* home is the slot the adapter was constructed in, for as long as it lives
\* there (0: the temporary's slot, or no slot any more).
\* dcount tells how often the destructor ran on the adapter's bytes:
\* "none", "once" or "more".
NewObj(f, c) == [f |-> f, home |-> c, dcount |-> "none"]

Bump(d) == IF d = "none" THEN "once" ELSE "more"

\* Table of the adapter objects whose bytes are in some slot.  Between
\* operations an object is numbered by the lowest slot holding its bytes;
\* the two extra entries serve within an operation, which constructs at most
\* one adapter before it drops the bytes of an old one.
ObjIds == 1..(MaxConts + 2)
Free == [f |-> NoF, home |-> 0, dcount |-> "free"]
FreeId(os) == CHOOSE id \in ObjIds :
  /\ os[id] = Free
  /\ \A j \in ObjIds : os[j] = Free => id <= j

\* The slot of c holds a live adapter: one constructed in this slot, not yet
\* destroyed, whose storage has not been overwritten since.
LiveIn(mem, os, c) ==
  /\ c # Temp
  /\ mem[c] # 0
  /\ os[mem[c]].home = c
  /\ os[mem[c]].dcount = "none"

\* The F inside object id can still be read: its resource was not released.
ValidF(os, id) == ~(os[id].f.owns /\ os[id].dcount # "none")

\* Writing into a slot that holds a live adapter ends that adapter's
\* lifetime without running its destructor.
Clobber(W, c) ==
  IF LiveIn(W.memory, W.objs, c)
  THEN [W EXCEPT !.objs[W.memory[c]].home = 0,
                 !.ev = Append(W.ev, <<"clobber", c>>)]
  ELSE W

\* variant: the adapter is obtained from the allocating `operator new`
OperatorNew_Heap(W, c) == [W EXCEPT !.heap = @ + 1]

\* `operator new(std::size_t, void* p)`, the form `new (memory) T(...)` calls:
\* it returns p, the start of the slot of c, and allocates nothing.
OperatorNew(W, c) == [W EXCEPT !.heap = @ + 0]

\* `new (memory) SFModel<F, ReturnType, Xs...>(f)` at the slot of c
PlacementNew(W, c, f) ==
  LET V == Clobber(OperatorNew(W, c), c)
      id == FreeId(W.objs)
  IN [V EXCEPT !.objs[id] = NewObj(f, c),
               !.memory[c] = id,
               !.ev = Append(V.ev, <<"construct", c>>)]

\* `((concept*)memory)->~concept()` : the virtual destructor found through
\* the bytes of the slot runs ~SFModel<F>, hence ~F, on those bytes.
DtorCall(W, c) ==
  LET id == W.memory[c]
  IN [W EXCEPT !.objs[id].dcount = Bump(@),
               !.twice = @ \/ W.objs[id].dcount # "none",
               !.ev = Append(W.ev, <<"destroy", c>>),
               !.ub = @ \/ ~ValidF(W.objs, id)]

\* variant: clean() forgets to reset the flag
clean_KeepsFlag(W, c) ==
  IF W.allocated[c] THEN DtorCall(W, c) ELSE W

\* SmallFun::clean
clean(W, c) ==
  IF W.allocated[c]
  THEN [DtorCall(W, c) EXCEPT !.allocated[c] = FALSE]
  ELSE W

\* SmallFun::~SmallFun
Destructor(W, c) ==
  IF W.allocated[c] THEN DtorCall(W, c) ELSE W

\* SFModel::copy(void* memory) const, called on the adapter bytes of src
SFModel_copy(W, src, dst) ==
  LET id == W.memory[src]
      V == PlacementNew(W, dst, W.objs[id].f)
  IN [V EXCEPT !.ub = @ \/ ~ValidF(W.objs, id)]

\* SmallFun::copy(void* data) const
copy(W, src, dst) ==
  IF W.allocated[src] THEN SFModel_copy(W, src, dst) ELSE W

\* variant: a same-type copy goes through clean() and copy() as the templated
\* operator= does
MemberwiseCopy_ViaTemplate(W, src, dst) ==
  LET W1 == clean(W, dst)
  IN copy([W1 EXCEPT !.allocated[dst] = W1.allocated[src]], src, dst)

\* The implicitly-defined copy constructor / copy assignment operator: the
\* templated ones are never copy operations, so for a source of the same
\* type the compiler-generated memberwise copy is selected.
MemberwiseCopy(W, src, dst) ==
  IF src = dst THEN W
  ELSE LET V == Clobber(W, dst)
       IN [V EXCEPT !.memory[dst] = W.memory[src],
                    !.allocated[dst] = W.allocated[src],
                    !.ev = Append(V.ev, <<"bytes", dst>>)]

\* template<unsigned s> SmallFun(SmallFun<ReturnType(Xs...), s> const& sf)
TemplateCopyCtor(W, src, dst) ==
  copy([W EXCEPT !.allocated[dst] = W.allocated[src]], src, dst)

\* template<unsigned s> SmallFun& operator=(SmallFun<..., s> const& sf)
TemplateAssign(W, src, dst) ==
  LET W1 == clean(W, dst)
      W2 == [W1 EXCEPT !.allocated[dst] = W1.allocated[src]]
  IN copy(W2, src, dst)

\* SmallFun(F const& f)
ConvertingCtor(W, c, f) ==
  PlacementNew([W EXCEPT !.allocated[c] = (SizeofSFModel(f) # 0)], c, f)

\* SmallFun::operator()(Ys&&...) and its const twin both evaluate
\* `(*(concept*)memory)(...)`: the C-style cast drops the const of `memory`,
\* so either one reaches the non-const operator() of the adapter.
Dispatch(q) == IF q = "const" THEN "mutable" ELSE "mutable"

\* The call goes through the bytes of the slot without looking at
\* `allocated`.  It has a defined outcome only if the slot is occupied by the
\* representation of an adapter whose F is still readable.
CallDefined(al, mem, os, c) ==
  /\ al[c]
  /\ mem[c] # 0
  /\ os[mem[c]].home = c => os[mem[c]].dcount = "none"
  /\ ValidF(os, mem[c])

CallResults(al, mem, os, c, x, q) ==
  IF CallDefined(al, mem, os, c)
  THEN {SFModel_call(os[mem[c]].f, x, Dispatch(q))}
  ELSE UBResults

\* ---- state --------------------------------------------------------------
World == [allocated |-> allocated, memory |-> memory, objs |-> objs,
          leaked |-> FALSE, twice |-> FALSE, heap |-> 0,
          ev |-> <<>>, ub |-> FALSE]

NoOp == [name |-> "init", dst |-> 0, src |-> 0, f |-> NoF, x |-> 0, q |-> "const"]
Op(n, d, s, f) == [name |-> n, dst |-> d, src |-> s, f |-> f, x |-> 0, q |-> "const"]

\* the storage of a container that is not alive is not part of the state
Release(W, c) ==
  [W EXCEPT !.allocated[c] = FALSE, !.memory[c] = 0]

\* The bytes of a slot whose flag is false are read by no operation short of
\* undefined behaviour (the result of invoking an empty container does not
\* depend on them), so stale bytes of destroyed adapters are dropped.
DropStale(W) ==
  [W EXCEPT !.memory = [c \in Slots |->
     IF W.allocated[c] \/ LiveIn(W.memory, W.objs, c) THEN W.memory[c] ELSE 0]]

Referenced(W) == {W.memory[c] : c \in Slots} \ {0}

\* the lowest slot holding the same bytes as the slot of c
FirstSlot(W, c) == CHOOSE d \in Slots :
  /\ W.memory[d] = W.memory[c]
  /\ \A e \in Slots : W.memory[e] = W.memory[c] => d <= e

\* An object whose bytes are in no slot any more can be neither called, copied
\* nor destroyed again: it is leaked if its destructor never ran.  The objects
\* still referenced are renumbered by their lowest slot.
Forget(W) ==
  LET refs == Referenced(W)
      first == [c \in Slots |-> FirstSlot(W, c)]
  IN [W EXCEPT
        !.leaked = @ \/ \E id \in ObjIds \ refs : W.objs[id].dcount = "none",
        !.memory = [c \in Slots |-> IF W.memory[c] = 0 THEN 0 ELSE first[c]],
        !.objs = [id \in ObjIds |->
                    IF id \in Conts /\ W.memory[id] # 0 /\ first[id] = id
                    THEN W.objs[W.memory[id]] ELSE Free]]

Commit(V, op) ==
  \E V1 \in {V} : \E V2 \in {DropStale(V1)} : \E W \in {Forget(V2)} :
  /\ allocated' = W.allocated
  /\ leaked' = W.leaked
  /\ twice' = W.twice
  /\ heap' = W.heap
  /\ memory' = W.memory
  /\ objs' = W.objs
  /\ ev' = W.ev
  /\ lastOp' = op
  /\ result' = NoResult
  /\ halted' \in (IF W.ub THEN BOOLEAN ELSE {FALSE})

Init ==
  /\ impls = Impls
  /\ cstate = [c \in Conts |-> "unborn"]
  /\ cap = [c \in Conts |-> 0]
  /\ allocated = [c \in Slots |-> FALSE]
  /\ memory = [c \in Slots |-> 0]
  /\ objs = [id \in ObjIds |-> Free]
  /\ leaked = FALSE
  /\ twice = FALSE
  /\ heap = 0
  /\ ev = <<>>
  /\ lastOp = NoOp
  /\ result = NoResult
  /\ halted = FALSE

Born(c, k) ==
  /\ cstate[c] = "unborn"
  /\ c > 1 => cstate[c - 1] # "unborn"
  /\ cstate' = [cstate EXCEPT ![c] = "alive"]
  /\ cap' = [cap EXCEPT ![c] = k]

\* SmallFun() {}
DefaultConstruct(c, k) ==
  /\ ~halted
  /\ Born(c, k)
  /\ Commit(World, Op("default", c, 0, NoF))
  /\ UNCHANGED <<impls>>

\* SmallFun<Sig, k> c(f);
ConstructFromCallable(c, k, f) ==
  /\ ~halted
  /\ FitsCallable(f, k)
  /\ Born(c, k)
  /\ Commit(ConvertingCtor(World, c, f), Op("construct", c, 0, f))
  /\ UNCHANGED <<impls>>

\* SmallFun<Sig, k> c(src);  src of the same type: implicit copy constructor
CopyConstructSame(c, src) ==
  /\ ~halted
  /\ cstate[src] = "alive"
  /\ Born(c, cap[src])
  /\ Commit(MemberwiseCopy(World, src, c), Op("copy_construct", c, src, NoF))
  /\ UNCHANGED <<impls>>

\* SmallFun<Sig, k> c(src);  src of a smaller declared capacity
CopyConstructCross(c, k, src) ==
  /\ ~halted
  /\ cstate[src] = "alive"
  /\ cap[src] # k
  /\ FitsCapacity(cap[src], k)
  /\ impls' = impls \cap CompilesWith(TRUE)
  /\ impls' # {}
  /\ Born(c, k)
  /\ Commit(TemplateCopyCtor(World, src, c), Op("copy_construct", c, src, NoF))

\* dst = src;  src of the same type: implicit copy assignment
CopyAssignSame(dst, src) ==
  /\ ~halted
  /\ cstate[dst] = "alive" /\ cstate[src] = "alive"
  /\ cap[src] = cap[dst]
  /\ Commit(MemberwiseCopy(World, src, dst), Op("copy_assign", dst, src, NoF))
  /\ UNCHANGED <<impls, cstate, cap>>

\* dst = src;  src of a smaller declared capacity: the templated operator=
CopyAssignCross(dst, src) ==
  /\ ~halted
  /\ cstate[dst] = "alive" /\ cstate[src] = "alive"
  /\ cap[src] # cap[dst]
  /\ FitsCapacity(cap[src], cap[dst])
  /\ impls' = impls \cap CompilesWith(TRUE)
  /\ impls' # {}
  /\ \E W \in {TemplateAssign(World, src, dst)} :
       Commit([W EXCEPT !.ub = @ \/ (\E im \in impls' : AssignFlowsOffEnd(im))],
              Op("copy_assign", dst, src, NoF))
  /\ UNCHANGED <<cstate, cap>>

\* dst = f;  (fs[i] = [i, N](int j) {...};)  the closure is converted to a
\* temporary container of dst's type, which is copy-assigned and destroyed.
AssignCallable(dst, f) ==
  /\ ~halted
  /\ cstate[dst] = "alive"
  /\ FitsCallable(f, cap[dst])
  /\ \E W1 \in {ConvertingCtor(World, Temp, f)} :
     \E W2 \in {MemberwiseCopy(W1, Temp, dst)} :
     \E W3 \in {Destructor(W2, Temp)} :
       Commit(Release(W3, Temp), Op("assign_callable", dst, 0, f))
  /\ UNCHANGED <<impls, cstate, cap>>

\* c.clean();
Clear(c) ==
  /\ ~halted
  /\ cstate[c] = "alive"
  /\ Commit(clean(World, c), Op("clean", c, 0, NoF))
  /\ UNCHANGED <<impls, cstate, cap>>

\* end of c's lifetime
Destroy(c) ==
  /\ ~halted
  /\ cstate[c] = "alive"
  /\ cstate' = [cstate EXCEPT ![c] = "dead"]
  /\ cap' = [cap EXCEPT ![c] = 0]
  /\ Commit(Release(Destructor(World, c), c), Op("destroy", c, 0, NoF))
  /\ UNCHANGED <<impls>>

\* variant: the call consumes the adapter and leaves the container empty
Invoke_Consumes(c, x, q) ==
  /\ ~halted
  /\ cstate[c] = "alive"
  /\ \E r \in CallResults(allocated, memory, objs, c, x, q) :
       /\ result' = r
       /\ halted' = (r = Trap)
  /\ lastOp' = [name |-> "invoke", dst |-> c, src |-> 0, f |-> NoF, x |-> x, q |-> q]
  /\ ev' = <<>>
  /\ leaked' = FALSE /\ twice' = FALSE /\ heap' = 0
  /\ allocated' = [allocated EXCEPT ![c] = FALSE]
  /\ UNCHANGED <<impls, cstate, cap, memory, objs>>

\* c(x) through the const or the non-const call operator
Invoke(c, x, q) ==
  /\ ~halted
  /\ cstate[c] = "alive"
  /\ \E r \in CallResults(allocated, memory, objs, c, x, q) :
       /\ result' = r
       /\ halted' = (r = Trap)
  /\ lastOp' = [name |-> "invoke", dst |-> c, src |-> 0, f |-> NoF, x |-> x, q |-> q]
  /\ ev' = <<>>
  /\ leaked' = FALSE /\ twice' = FALSE /\ heap' = 0
  /\ UNCHANGED <<impls, cstate, cap, allocated, memory, objs>>

Next ==
  \/ \E c \in Conts, k \in Caps : DefaultConstruct(c, k)
  \/ \E c \in Conts, k \in Caps, f \in Callables : ConstructFromCallable(c, k, f)
  \/ \E c \in Conts, src \in Conts : CopyConstructSame(c, src)
  \/ \E c \in Conts, k \in Caps, src \in Conts : CopyConstructCross(c, k, src)
  \/ \E dst \in Conts, src \in Conts : CopyAssignSame(dst, src)
  \/ \E dst \in Conts, src \in Conts : CopyAssignCross(dst, src)
  \/ \E dst \in Conts, f \in Callables : AssignCallable(dst, f)
  \/ \E c \in Conts : Clear(c)
  \/ \E c \in Conts : Destroy(c)
  \/ \E c \in Conts, x \in Args, q \in Quals : Invoke(c, x, q)

Spec == Init /\ [][Next]_vars

TypeOK ==
  /\ impls \subseteq Impls /\ impls # {}
  /\ \A c \in Conts : cstate[c] \in {"unborn", "alive", "dead"}
  /\ \A c \in Slots : memory[c] \in {0} \cup ObjIds
  /\ \A id \in ObjIds : objs[id] # Free <=> \E c \in Conts : memory[c] = id
  /\ allocated[Temp] = FALSE /\ memory[Temp] = 0
  /\ \A c \in Conts : allocated[c] => memory[c] # 0


\* ---- instrumentation ----------------------------------------------------
CopyOps == {"copy_construct", "copy_assign"}

IsLifetimeEvent(e) == e[1] \in {"construct", "destroy"}
IsClobberEvent(e) == e[1] = "clobber"
LifetimeEvents(s) == SelectSeq(s, IsLifetimeEvent)

\* what invoking c can return, for every argument and either call operator
ResultsOf(al, mem, os, c) ==
  [x \in Args, q \in Quals |-> CallResults(al, mem, os, c, x, q)]

\* the other container of the pair of a copy operation
Other(op, c) == IF c = op.dst THEN op.src ELSE op.dst

\* the adapter record behind the bytes of slot c (Free if never written)
AdapterOf(mem, os, c) == IF mem[c] = 0 THEN Free ELSE os[mem[c]]

\* ---- C1 -----------------------------------------------------------------
\* C1: single destruction.  No operation of a run abandons an adapter that
\* was constructed and never destroyed (leak), and no operation runs the
\* adapter destructor on an adapter that was destroyed before; hence at the
\* end of a run that destroys every container constructions and destructions
\* are equal in number.
C1_SingleDestruction == ~leaked /\ ~twice

\* ---- C2 -----------------------------------------------------------------
\* C2: copy-assignment protocol.  Every copy-assignment dst = src between
\* two containers first destroys dst's adapter if dst is occupied, then has
\* the source construct a copy in dst's slot if src is occupied, in this
\* order and nothing else; afterwards dst's flag equals src's flag, and no
\* write into dst's slot hits a live adapter.
C2_AssignProtocol ==
  [][(lastOp'.name = "copy_assign" /\ lastOp'.src # lastOp'.dst) =>
       LET d == lastOp'.dst
           s == lastOp'.src
           destroyed == IF allocated[d] THEN << <<"destroy", d>> >> ELSE <<>>
           copied == IF allocated[s] THEN << <<"construct", d>> >> ELSE <<>>
       IN /\ LifetimeEvents(ev') = destroyed \o copied
          /\ allocated'[d] = allocated[s]
          /\ SelectSeq(ev', IsClobberEvent) = <<>>]_vars

\* ---- C3 -----------------------------------------------------------------
\* C3: occupancy invariant.  For every live container the flag `allocated`
\* is true exactly when its slot holds an adapter that was constructed in
\* that slot and has not been destroyed.
C3_Occupancy ==
  \A c \in Conts :
    cstate[c] = "alive" => (allocated[c] <=> LiveIn(memory, objs, c))

\* ---- C4 -----------------------------------------------------------------
\* C4: call equivalence.  Invoking, through either call operator, a container
\* whose slot holds the live adapter of a callable F that fits the declared
\* capacity returns F(x).
C4_CallEquivalence ==
  (/\ lastOp.name = "invoke"
   /\ allocated[lastOp.dst]
   /\ LiveIn(memory, objs, lastOp.dst))
  => /\ FitsCallable(objs[memory[lastOp.dst]].f, cap[lastOp.dst])
     /\ result = Apply(objs[memory[lastOp.dst]].f, lastOp.x)

\* capacity 64, i = 3, N = 100, x = 5 gives 115 through the const operator
C4_Witness ==
  /\ lastOp.name = "invoke"
  /\ lastOp.q = "const"
  /\ lastOp.x = 5
  /\ cap[lastOp.dst] = 64
  /\ allocated[lastOp.dst]
  /\ LiveIn(memory, objs, lastOp.dst)
  /\ objs[memory[lastOp.dst]].f.i = 3
  /\ result = 115

\* ---- C5 -----------------------------------------------------------------
\* C5: copy equivalence.  When B is copy-constructed or copy-assigned from a
\* container A that holds a live adapter, invoking B yields what invoking A
\* yielded; and when the next operation clears, reassigns or destroys A,
\* invoking B still yields the same.
C5_CopyEquivalence ==
  [][/\ (/\ lastOp'.name \in CopyOps
         /\ lastOp'.src # lastOp'.dst
         /\ allocated[lastOp'.src]
         /\ LiveIn(memory, objs, lastOp'.src))
        => ResultsOf(allocated', memory', objs', lastOp'.dst)
             = ResultsOf(allocated, memory, objs, lastOp'.src)
     /\ (/\ lastOp.name \in CopyOps
         /\ lastOp.src # lastOp.dst
         /\ cstate[lastOp.dst] = "alive"
         /\ allocated[lastOp.src]
         /\ LiveIn(memory, objs, lastOp.src)
         /\ lastOp'.name \in {"clean", "destroy", "assign_callable", "copy_assign"}
         /\ lastOp'.dst = lastOp.src)
        => ResultsOf(allocated', memory', objs', lastOp.dst)
             = ResultsOf(allocated, memory, objs, lastOp.dst)]_vars

\* ---- C6 -----------------------------------------------------------------
\* C6: capacity safety.  The adapter whose bytes are in a container's slot is
\* never larger than the declared capacity; every construction or assignment
\* from a callable that happened had an adapter within the capacity, and
\* every copy that happened had a source capacity within the destination's.
C6_CapacitySafety ==
  /\ \A c \in Conts :
       (cstate[c] = "alive" /\ memory[c] # 0)
         => SizeofSFModel(objs[memory[c]].f) <= cap[c]
  /\ lastOp.name \in {"construct", "assign_callable"}
       => SizeofSFModel(lastOp.f) <= cap[lastOp.dst]
  /\ (lastOp.name \in CopyOps /\ cstate[lastOp.src] = "alive")
       => cap[lastOp.src] <= cap[lastOp.dst]

\* a copy from a smaller declared capacity put a 16-byte adapter in capacity 64
C6_Witness ==
  /\ lastOp.name \in CopyOps
  /\ cstate[lastOp.src] = "alive"
  /\ cap[lastOp.src] < cap[lastOp.dst]
  /\ cap[lastOp.dst] = 64
  /\ allocated[lastOp.dst]
  /\ SizeofSFModel(objs[memory[lastOp.dst]].f) = 16

\* ---- C7 -----------------------------------------------------------------
\* C7: copy independence.  No two occupied containers hold the same adapter;
\* after a copy from an occupied container both containers hold a live
\* adapter of their own; and the next operation on one container of the pair
\* leaves the other's flag, adapter and call results unchanged.
C7_CopyIndependence ==
  [][/\ \A a, b \in Conts :
          (a # b /\ allocated'[a] /\ allocated'[b]) => memory'[a] # memory'[b]
     /\ (/\ lastOp'.name \in CopyOps
         /\ lastOp'.src # lastOp'.dst
         /\ allocated[lastOp'.src]
         /\ LiveIn(memory, objs, lastOp'.src))
        => /\ LiveIn(memory', objs', lastOp'.dst)
           /\ LiveIn(memory', objs', lastOp'.src)
     /\ (/\ lastOp.name \in CopyOps
         /\ lastOp.src # lastOp.dst
         /\ allocated[lastOp.src] /\ allocated[lastOp.dst]
         /\ lastOp'.name \in {"invoke", "clean", "destroy", "assign_callable"}
         /\ lastOp'.dst \in {lastOp.src, lastOp.dst})
        => LET o == Other(lastOp, lastOp'.dst)
           IN /\ allocated'[o] = allocated[o]
              /\ AdapterOf(memory', objs', o) = AdapterOf(memory, objs, o)
              /\ ResultsOf(allocated', memory', objs', o)
                   = ResultsOf(allocated, memory, objs, o)]_vars

\* ---- C8 -----------------------------------------------------------------
\* C8: reassignment.  After c = F the container is occupied and invoking it
\* with any x, through either call operator, returns F(x) and nothing else.
C8_Reassignment ==
  lastOp.name = "assign_callable" =>
    /\ allocated[lastOp.dst]
    /\ \A x \in Args, q \in Quals :
         CallResults(allocated, memory, objs, lastOp.dst, x, q)
           = {Apply(lastOp.f, x)}

\* ---- C9 -----------------------------------------------------------------
\* C9: clear.  clean() on an occupied container runs the adapter destructor
\* exactly once and leaves the container empty; on an empty container it
\* runs nothing and changes nothing; clean();clean() equals clean().
C9_Clear ==
  [][lastOp'.name = "clean" =>
       LET c == lastOp'.dst
           once == clean(World, c)
       IN /\ clean(once, c) = once
          /\ ~allocated'[c]
          /\ allocated[c] =>
               /\ ev' = << <<"destroy", c>> >>
               /\ once.objs[memory[c]].dcount = Bump(objs[memory[c]].dcount)
          /\ ~allocated[c] =>
               /\ ev' = <<>>
               /\ allocated' = allocated
               /\ memory' = memory
               /\ objs' = objs]_vars

\* clean() ran one destructor and emptied the container
C9_Witness ==
  /\ lastOp.name = "clean"
  /\ ev = << <<"destroy", lastOp.dst>> >>
  /\ ~allocated[lastOp.dst]

\* ---- C10 ----------------------------------------------------------------
\* C10: destruction.  Destroying an occupied container runs the adapter
\* destructor exactly once, on an adapter that was not destroyed before;
\* destroying an empty (for instance a cleared) container runs nothing.
C10_Destruction ==
  [][lastOp'.name = "destroy" =>
       LET c == lastOp'.dst
       IN /\ allocated[c] =>
               /\ ev' = << <<"destroy", c>> >>
               /\ objs[memory[c]].dcount = "none"
               /\ Destructor(World, c).objs[memory[c]].dcount = "once"
          /\ ~allocated[c] =>
               /\ ev' = <<>>
               /\ \A o \in Conts \ {c} :
                    AdapterOf(memory', objs', o) = AdapterOf(memory, objs, o)]_vars

C12_SlotAlignment ==
  \A c \in Conts :
    (cstate[c] = "alive" /\ LiveIn(memory, objs, c)) =>
      \A k \in ElementIndexes :
        ElementAddress(k, cap[c]) % AlignofSFModel(objs[memory[c]].f) = 0

\* ---- C13 ----------------------------------------------------------------
\* C13: copy from an empty source.  Copy-constructing from an empty container
\* gives an empty container and constructs no adapter; copy-assigning an empty
\* container to an occupied one runs the destructor of the destination's
\* adapter exactly once, abandons nothing and leaves the destination empty;
\* copy-assigning an empty container to an empty one changes nothing.
C13_CopyFromEmpty ==
  [][LET d == lastOp'.dst
         s == lastOp'.src
     IN /\ (lastOp'.name = "copy_construct" /\ ~allocated[s]) =>
             /\ ~allocated'[d]
             /\ LifetimeEvents(ev') = <<>>
             /\ ~LiveIn(memory', objs', d)
        /\ (lastOp'.name = "copy_assign" /\ ~allocated[s] /\ allocated[d]) =>
             /\ LifetimeEvents(ev') = << <<"destroy", d>> >>
             /\ SelectSeq(ev', IsClobberEvent) = <<>>
             /\ ~leaked'
             /\ ~allocated'[d]
        /\ (lastOp'.name = "copy_assign" /\ ~allocated[s] /\ ~allocated[d]) =>
             /\ LifetimeEvents(ev') = <<>>
             /\ allocated' = allocated
             /\ memory' = memory
             /\ objs' = objs]_vars

\* ---- C14 ----------------------------------------------------------------
\* C14: self-assignment.  c = c on an occupied container leaves it occupied,
\* with the same adapter, live if it was live, and the same call results; it
\* constructs and destroys no adapter and abandons none.
C14_SelfAssignment ==
  [][(/\ lastOp'.name = "copy_assign"
      /\ lastOp'.src = lastOp'.dst
      /\ allocated[lastOp'.dst])
     => LET c == lastOp'.dst
        IN /\ allocated'[c]
           /\ LiveIn(memory, objs, c) => LiveIn(memory', objs', c)
           /\ AdapterOf(memory', objs', c) = AdapterOf(memory, objs, c)
           /\ ResultsOf(allocated', memory', objs', c)
                = ResultsOf(allocated, memory, objs, c)
           /\ LifetimeEvents(ev') = <<>>
           /\ ~leaked' /\ ~twice'
           /\ ~halted']_vars

\* c = c happened on a container holding a live adapter
C14_Witness ==
  /\ lastOp.name = "copy_assign"
  /\ lastOp.src = lastOp.dst
  /\ allocated[lastOp.dst]
  /\ LiveIn(memory, objs, lastOp.dst)
  /\ ev = <<>>

\* ---- C15 ----------------------------------------------------------------
\* C15: invocation frame.  Invoking, through either call operator, a container
\* that holds a live adapter returns what the adapter in its own slot returns,
\* leaves every flag, every slot and every adapter as it was, constructs and
\* destroys nothing; and invoking it again with the same argument returns the
\* same result.
C15_InvocationFrame ==
  [][(/\ lastOp'.name = "invoke"
      /\ allocated[lastOp'.dst]
      /\ LiveIn(memory, objs, lastOp'.dst))
     => LET c == lastOp'.dst
        IN /\ result' = SFModel_call(objs[memory[c]].f, lastOp'.x,
                                     Dispatch(lastOp'.q))
           /\ allocated' = allocated
           /\ memory' = memory
           /\ objs' = objs
           /\ cstate' = cstate /\ cap' = cap
           /\ ev' = <<>>
           /\ ~leaked' /\ ~twice' /\ heap' = 0
           /\ ~halted'
           /\ (/\ lastOp.name = "invoke"
               /\ lastOp.dst = c
               /\ lastOp.x = lastOp'.x) => result' = result]_vars

\* the non-const operator was invoked while another container was occupied
C15_Witness ==
  /\ lastOp.name = "invoke"
  /\ lastOp.q = "mutable"
  /\ allocated[lastOp.dst]
  /\ LiveIn(memory, objs, lastOp.dst)
  /\ result = Apply(objs[memory[lastOp.dst]].f, lastOp.x)
  /\ \E o \in Conts \ {lastOp.dst} : allocated[o] /\ LiveIn(memory, objs, o)

====
